---------------------------- MODULE Spec2Model ----------------------------
(***************************************************************************)
(* Model of the pose-comparison and feedback engine of gym-feedback-ai.    *)
(*                                                                         *)
(* Three specifications share this module: Spec (one dual-stream           *)
(* PoseCanvas), SpecOverlay (the Overlay of the single-stream PoseCanvas)  *)
(* and SpecApp (the dual-stream page with both PoseCanvas instances).      *)
(*                                                                         *)
(* Spec models one mounted dual-stream PoseCanvas (the forwardRef          *)
(* component of src/app/components/PoseCanvas.js, lines 208-392): its      *)
(* detection loop (detectPose, startPoseDetection, stopPoseDetection),     *)
(* the browser's animation-frame queue, the estimator it awaits and the    *)
(* fire-and-forget scoring calls (sendLandmarksToBackend).                  *)
(*                                                                         *)
(* startPoseDetection is memoised with an empty dependency list, so the    *)
(* detectPose it calls, and every detectPose that reschedules itself, is   *)
(* the closure of the first render: poseLandmarker, videoDimensions and    *)
(* otherLandmarks are the values of the props at mount and never change    *)
(* for the lifetime of the loop.  videoRef, canvasRef, frameIndex and      *)
(* animationIdRef are refs and are read live.                              *)
(*                                                                         *)
(* Landmark coordinates are normalised to 0..1 in the program; the model   *)
(* writes them in quarters (0..4 stands for 0, 0.25, .., 1), which keeps   *)
(* every distance of the landmark sets used here exact.                    *)
(***************************************************************************)
EXTENDS Integers, Sequences, FiniteSets, TLC

(***************************************************************************)
(* Bounds of the exploration.                                              *)
(***************************************************************************)
\* ids handed out by requestAnimationFrame are 1..MaxRafId
MaxRafId == 3
\* successful detections (values of frameIndex) explored
MaxFrames == 2
\* iterations suspended at the await of the estimator at the same time
MaxAwait == 2
\* seconds an overlay item is followed on display
MaxShown == 12
\* utterances waiting in speechSynthesis at the same time
MaxQueue == 2
\* values of the Overlay's currentIndex explored
MaxIndex == 2
\* ids requestAnimationFrame hands to the instances of the dual-stream page
AppMaxRafId == 2
\* successful detections counted by the instances of the dual-stream page
AppMaxFrames == 1
\* suspended iterations of the instances of the dual-stream page
AppMaxAwait == 2
\* positions of the uploaded video: 0 .. MediaLength, MediaLength is its end
MediaLength == 1
\* calls of getUserMedia pending at one time
MaxCameraRequests == 1

(***************************************************************************)
(* Landmark sets.                                                          *)
(***************************************************************************)
Pt(px, py, pz) == [x |-> px, y |-> py, z |-> pz, hasZ |-> TRUE]

\* a landmark without depth: point.z is undefined
PtNoZ(px, py) == [x |-> px, y |-> py, z |-> 0, hasZ |-> FALSE]

PoseA == << Pt(0, 0, 0), Pt(4, 4, 0) >>

PoseB == << Pt(0, 3, 4), Pt(4, 4, 0) >>

PoseShort == << Pt(0, 0, 0) >>

\* landmark sets the estimator can return
Poses == { PoseA, PoseB }

\* values of the otherLandmarks prop at mount ([] is App's initial state)
OtherChoices == { << >>, PoseA, PoseShort }

\* values of the videoDimensions prop at mount
DimensionChoices == { [width |-> 640, height |-> 480], [width |-> 0, height |-> 480] }

\* (video element present, readyState) as the frame source can be
VideoStates == { [present |-> FALSE, readyState |-> 0],
                 [present |-> TRUE, readyState |-> 1],
                 [present |-> TRUE, readyState |-> 2] }

\* results of poseLandmarker.detectForVideo
EstimatorResults ==
    { [hasLandmarks |-> FALSE, landmarks |-> << >>, hasWorld |-> FALSE],
      [hasLandmarks |-> TRUE, landmarks |-> << >>, hasWorld |-> TRUE] }
    \cup { [hasLandmarks |-> TRUE, landmarks |-> << p >>, hasWorld |-> w] :
             p \in Poses, w \in BOOLEAN }

NoFeedbackYet == "No feedback yet"

\* outcomes of one scoring call: fetch rejects, HTTP status not ok, body not
\* JSON, or a parsed body whose feedback field is absent or a string
ScoringResponses ==
    { [kind |-> k, hasFeedback |-> FALSE, feedback |-> ""] :
        k \in { "network_error", "http_error", "bad_body", "ok" } }
    \cup { [kind |-> "ok", hasFeedback |-> TRUE, feedback |-> f] :
             f \in { "", NoFeedbackYet, "Straighten your back" , "Lift your elbow" } }

VARIABLES
    phase,                \* "rendered" (before the mount effect), "mounted", "unmounted"
    poseLandmarker,       \* prop captured at mount: an estimator instance is available
    videoDimensions,      \* prop captured at mount
    otherLandmarks,       \* prop captured at mount
    video,                \* videoRef.current: [present, readyState]
    canvasCtx,            \* the canvas element gives a 2d context when asked for one
    animationIdRef,       \* animationIdRef.current, 0 for null
    rafNext,              \* next id requestAnimationFrame returns
    rafPending,           \* ids of the callbacks requested and neither run nor cancelled
    awaiting,             \* detectPose invocations suspended at the await of the estimator
    frameIndex,           \* frameIndex.current
    landmarks,            \* the parent's latest landmark set of this source
    poseMatchPercentage,  \* [nan, val]
    canvas,               \* "blank", "frame" (video frame drawn), "pose" (skeleton drawn)
    inflight,             \* frame indices of the scoring calls not yet settled
    feedback,             \* the parent's feedback state of this stream
    unhandled,            \* an error has left detectPose or sendLandmarksToBackend uncaught
    lastCommand,          \* last lifecycle call: "none", "start", "stop"
    lastSettled,          \* how the last settled scoring call ended: "none" (no call
                          \* settled yet), "failed", "silent", "text"
    \* the Overlay of the single-stream PoseCanvas
    draft,                \* which Overlay is mounted: "narrated" or "plain"
    isSupported,          \* Overlay state isSupported
    show,                 \* Overlay state show
    timer,                \* seconds until the pending hide timeout fires, -1 for none
    currentIndex,         \* Overlay state currentIndex
    speechQueue,          \* utterances handed to speechSynthesis and not yet ended
    shownFor,             \* seconds the item on display has been visible
    expired,              \* the item's hide timeout has fired and no new text has arrived
    replacedTimer,        \* seconds the hide timer of the item replaced last had left, or -1
    \* the dual-stream controller (App) and its two PoseCanvas instances
    controller,           \* App's state and its uploaded-video element
    streams,              \* "uploaded", "webcam": one PoseCanvas instance each
    retired,              \* per source, the earlier instances that still have an
                          \* iteration suspended or a frame requested
    lastEvent,            \* the handler the last step of the page ran: "play", "pause",
                          \* "stop", "ended", "upload", "rejected upload", "seek to start";
                          \* "other" for any other step, "none" before the first
    \* the pure functions, applied to one input
    comparison,           \* a pair of landmark sets and what detectPose makes of it
    scaling,              \* an input of getScaledDimensions and its result
    \* the effect-driven (single-stream) PoseCanvas
    effects,              \* the runs of its detection effect
    \* the scoring calls of one stream, observed
    settled               \* the scoring call settled last: its frame index, the
                          \* text of its response, and the feedback state it found

\* the state of one dual-stream PoseCanvas and of its parent's feedback
loopVars == << phase, poseLandmarker, videoDimensions, otherLandmarks, video,
               canvasCtx, animationIdRef, rafNext, rafPending, awaiting, frameIndex, landmarks,
               poseMatchPercentage, canvas, inflight, feedback, unhandled,
               lastCommand, lastSettled >>

overlayVars == << draft, isSupported, show, timer, currentIndex, speechQueue,
                  shownFor, expired, replacedTimer >>

appVars == << controller, streams, retired, lastEvent >>

calcVars == << comparison, scaling >>

effectVars == << effects >>

scoreVars == << settled >>

vars == << loopVars, overlayVars, appVars, calcVars, effectVars, scoreVars >>

props == << poseLandmarker, videoDimensions, otherLandmarks >>

(***************************************************************************)
(* One PoseCanvas instance as a record: what its closure and refs read      *)
(* (phase, the props captured at mount, the video element) and the mutable *)
(* state the loop works on.  cancelCalls counts the calls of               *)
(* cancelAnimationFrame made while an operation runs.                      *)
(***************************************************************************)
Loop ==
    [ phase |-> phase, poseLandmarker |-> poseLandmarker,
      videoDimensions |-> videoDimensions, otherLandmarks |-> otherLandmarks,
      video |-> video, canvasCtx |-> canvasCtx,
      animationIdRef |-> animationIdRef, rafNext |-> rafNext,
      rafPending |-> rafPending, awaiting |-> awaiting,
      frameIndex |-> frameIndex, landmarks |-> landmarks,
      poseMatchPercentage |-> poseMatchPercentage, canvas |-> canvas,
      inflight |-> inflight, unhandled |-> unhandled,
      cancelCalls |-> 0 ]

SetLoop(l) ==
    /\ animationIdRef' = l.animationIdRef
    /\ rafNext' = l.rafNext
    /\ rafPending' = l.rafPending
    /\ awaiting' = l.awaiting
    /\ frameIndex' = l.frameIndex
    /\ landmarks' = l.landmarks
    /\ poseMatchPercentage' = l.poseMatchPercentage
    /\ canvas' = l.canvas
    /\ inflight' = l.inflight
    /\ unhandled' = l.unhandled


(***************************************************************************)
(* Comparison of two landmark sets (Euclidean draft of the forwardRef      *)
(* PoseCanvas).  A number that may be NaN is the record [nan, val].        *)
(***************************************************************************)
Num(v) == [nan |-> FALSE, val |-> v]

NaN == [nan |-> TRUE, val |-> 0]

\* Math.sqrt, exact on the perfect squares the model's landmark sets produce
Sqrt(n) == CHOOSE r \in 0..n : r * r <= n /\ (r + 1) * (r + 1) > n

\* euclideanDistance(point1, point2), in quarters; NaN when a z is undefined
euclideanDistance(point1, point2) ==
    IF point1.hasZ /\ point2.hasZ
    THEN Num(Sqrt((point1.x - point2.x) * (point1.x - point2.x)
                  + (point1.y - point2.y) * (point1.y - point2.y)
                  + (point1.z - point2.z) * (point1.z - point2.z)))
    ELSE NaN

Add(a, b) == IF a.nan \/ b.nan THEN NaN ELSE Num(a.val + b.val)

\* currentLandmarks.reduce((sum, landmark, index) => sum + distance(..), 0)
RECURSIVE totalDistance(_, _, _)
totalDistance(currentLandmarks, others, n) ==
    IF n = 0 THEN Num(0)
    ELSE Add(totalDistance(currentLandmarks, others, n - 1),
             euclideanDistance(currentLandmarks[n], others[n]))

\* Math.max(0, 100 - (totalDistance / length) * 200); Math.max(0, NaN) is NaN.
\* The total is in quarters, hence the divisor 4 * length.
matchPercentageOf(currentLandmarks, others) ==
    LET total == totalDistance(currentLandmarks, others, Len(currentLandmarks))
        raw == 100 - (200 * total.val) \div (4 * Len(currentLandmarks))
    IN IF total.nan THEN NaN ELSE Num(IF raw > 0 THEN raw ELSE 0)

\* otherLandmarks[index] is undefined for an index of currentLandmarks:
\* reading its x throws a TypeError
comparisonThrows(currentLandmarks, others) == Len(others) < Len(currentLandmarks)

(***************************************************************************)
(* The detection loop.                                                     *)
(***************************************************************************)
\* variant: the iteration ends without requesting the next frame
requestNextDropped(l) == l

\* animationIdRef.current = requestAnimationFrame(detectPose)
requestNext(l) ==
    [l EXCEPT !.animationIdRef = l.rafNext,
              !.rafPending = @ \cup { l.rafNext },
              !.rafNext = @ + 1]

\* variant: a frame source that has only its metadata counts as ready
sourceReadyOnMetadata(l) ==
    l.video.present /\ l.poseLandmarker /\ l.video.readyState >= 1

\* videoRef.current && poseLandmarker && videoRef.current.readyState >= 2
sourceReady(l) ==
    l.video.present /\ l.poseLandmarker /\ l.video.readyState >= 2

\* canvasRef.current is set while the component is in the document
canvasPresent(l) == l.phase # "unmounted"

\* canvasElement.getContext('2d') is not null
contextPresent(l) == l.canvasCtx

\* !videoWidth || !videoHeight
invalidDimensions(l) == l.videoDimensions.width = 0 \/ l.videoDimensions.height = 0

\* an error thrown inside detectPose rejects its promise: nothing after the
\* throw runs, the next frame is not requested
throwFrom(l) == [l EXCEPT !.unhandled = TRUE]

\* detectPose from its call to the await of the estimator: without a canvas,
\* a 2d context or valid dimensions it returns, nothing drawn or requested
detectPoseBegin(l) ==
    IF ~sourceReady(l) THEN requestNext(l)
    ELSE IF ~canvasPresent(l) THEN l
    ELSE IF ~contextPresent(l) THEN l
    ELSE IF invalidDimensions(l) THEN l
    ELSE [l EXCEPT !.canvas = "frame", !.awaiting = @ + 1]

\* sendLandmarksToBackend up to the await of fetch: the request body carries
\* frameIndex.current as it is at the call
sendLandmarksToBackend(l) == [l EXCEPT !.inflight = @ \cup { l.frameIndex }]

\* variant: the counter advances before the scoring call reads it
finishDetectionCountsFirst(l) ==
    requestNext(sendLandmarksToBackend([l EXCEPT !.frameIndex = @ + 1]))

\* the last statements of a successful detection: send, count, request
finishDetection(l) ==
    requestNext([sendLandmarksToBackend(l) EXCEPT !.frameIndex = @ + 1])

\* setPoseMatchPercentage: a state setter of an unmounted component does nothing
setPoseMatchPercentage(l, p) ==
    IF l.phase = "mounted" THEN [l EXCEPT !.poseMatchPercentage = p] ELSE l

\* detectPose from the estimator's result to its end
detectPoseResume(l, result) ==
    LET r == [l EXCEPT !.awaiting = @ - 1]
    IN IF result.hasLandmarks /\ Len(result.landmarks) > 0
       THEN LET currentLandmarks == result.landmarks[1]
                stored == [r EXCEPT !.landmarks = currentLandmarks]
            IN IF Len(l.otherLandmarks) > 0
                  /\ comparisonThrows(currentLandmarks, l.otherLandmarks)
               THEN throwFrom(stored)
               ELSE LET matchPercentage ==
                            IF Len(l.otherLandmarks) > 0
                            THEN matchPercentageOf(currentLandmarks, l.otherLandmarks)
                            ELSE Num(100)
                        drawn == [setPoseMatchPercentage(stored, matchPercentage)
                                    EXCEPT !.canvas = "pose"]
                    IN IF ~result.hasWorld
                       THEN throwFrom(drawn)
                       ELSE finishDetection(drawn)
       ELSE requestNext(r)

\* detectPose when the estimator call throws or its promise rejects
detectPoseReject(l) ==
    throwFrom([l EXCEPT !.awaiting = @ - 1])

\* variant: the request is cancelled but its id stays stored
stopPoseDetectionKeepsId(l) ==
    IF l.animationIdRef # 0
    THEN [l EXCEPT !.rafPending = @ \ { l.animationIdRef }, !.cancelCalls = @ + 1]
    ELSE l

\* stopPoseDetection
stopPoseDetection(l) ==
    IF l.animationIdRef # 0
    THEN [l EXCEPT !.rafPending = @ \ { l.animationIdRef },
                   !.cancelCalls = @ + 1,
                   !.animationIdRef = 0]
    ELSE l

\* startPoseDetection
startPoseDetection(l) ==
    IF l.animationIdRef = 0 THEN detectPoseBegin(l) ELSE l

\* variant: any non-empty feedback is accepted
feedbackAcceptedAnyText(data) == data.hasFeedback /\ data.feedback # ""

\* data.feedback && data.feedback !== "No feedback yet"
feedbackAccepted(data) ==
    data.hasFeedback /\ data.feedback # "" /\ data.feedback # NoFeedbackYet

\* variant: the catch block clears the feedback
feedbackAfterClearingOnError(response) ==
    IF response.kind # "ok" THEN ""
    ELSE IF feedbackAccepted(response) THEN response.feedback
    ELSE feedback

\* variant: a feedback text that is set is not overwritten
feedbackAfterKeepsFirst(response) ==
    IF feedback = "" /\ response.kind = "ok" /\ feedbackAccepted(response)
    THEN response.feedback
    ELSE feedback

\* sendLandmarksToBackend after the await of fetch: the value of the feedback
\* state when the call has settled with `response`
feedbackAfter(response) ==
    IF response.kind = "ok" /\ feedbackAccepted(response)
    THEN response.feedback
    ELSE feedback

\* the outcome of a scoring call, as the program distinguishes them
outcomeOf(response) ==
    IF response.kind # "ok" THEN "failed"
    ELSE IF ~response.hasFeedback \/ response.feedback \in { "", NoFeedbackYet }
         THEN "silent"
         ELSE "text"

\* an error leaves sendLandmarksToBackend: never, its try/catch logs every failure
scoringThrows(response) == FALSE

(***************************************************************************)
(* Actions.                                                                *)
(***************************************************************************)
\* room left in the explored range of ids, frames and suspended iterations
InBounds == rafNext <= MaxRafId /\ frameIndex < MaxFrames /\ awaiting < MaxAwait

Init ==
    /\ phase = "rendered"
    /\ poseLandmarker \in BOOLEAN
    /\ videoDimensions \in DimensionChoices
    /\ otherLandmarks \in OtherChoices
    /\ video \in VideoStates
    /\ canvasCtx \in BOOLEAN
    /\ animationIdRef = 0
    /\ rafNext = 1
    /\ rafPending = { }
    /\ awaiting = 0
    /\ frameIndex = 0
    /\ landmarks = << >>
    /\ poseMatchPercentage = Num(100)
    /\ canvas = "blank"
    /\ inflight = { }
    /\ feedback = ""
    /\ unhandled = FALSE
    /\ lastCommand = "none"
    /\ lastSettled = "none"

\* the mount effect: startPoseDetection()
Mount ==
    /\ phase = "rendered"
    /\ InBounds
    /\ phase' = "mounted"
    /\ SetLoop(startPoseDetection(Loop))
    /\ lastCommand' = "start"
    /\ UNCHANGED << props, video, canvasCtx, feedback, lastSettled >>
    /\ UNCHANGED << overlayVars, appVars, calcVars, effectVars, scoreVars >>

\* the parent calls startPoseDetection through the imperative handle
Start ==
    /\ phase = "mounted"
    /\ InBounds
    /\ SetLoop(startPoseDetection(Loop))
    /\ lastCommand' = "start"
    /\ UNCHANGED << phase, props, video, canvasCtx, feedback, lastSettled >>
    /\ UNCHANGED << overlayVars, appVars, calcVars, effectVars, scoreVars >>

\* the parent calls stopPoseDetection through the imperative handle
Stop ==
    /\ phase = "mounted"
    /\ SetLoop(stopPoseDetection(Loop))
    /\ lastCommand' = "stop"
    /\ UNCHANGED << phase, props, video, canvasCtx, feedback, lastSettled >>
    /\ UNCHANGED << overlayVars, appVars, calcVars, effectVars, scoreVars >>

\* the cleanup of the mount effect: stopPoseDetection(); the canvas is detached
Unmount ==
    /\ phase = "mounted"
    /\ phase' = "unmounted"
    /\ SetLoop(stopPoseDetection(Loop))
    /\ lastCommand' = "stop"
    /\ UNCHANGED << props, video, canvasCtx, feedback, lastSettled >>
    /\ UNCHANGED << overlayVars, appVars, calcVars, effectVars, scoreVars >>

\* the browser runs a requested animation-frame callback: detectPose()
AnimationFrame ==
    \E id \in rafPending :
       /\ InBounds
       /\ SetLoop(detectPoseBegin([Loop EXCEPT !.rafPending = @ \ { id }]))
       /\ UNCHANGED << phase, props, video, canvasCtx, feedback, lastCommand, lastSettled >>
       /\ UNCHANGED << overlayVars, appVars, calcVars, effectVars, scoreVars >>

\* the estimator answers a suspended iteration
EstimatorResolve ==
    \E result \in EstimatorResults :
       /\ awaiting > 0
       /\ rafNext <= MaxRafId
       /\ frameIndex < MaxFrames
       /\ SetLoop(detectPoseResume(Loop, result))
       /\ UNCHANGED << phase, props, video, canvasCtx, feedback, lastCommand, lastSettled >>
       /\ UNCHANGED << overlayVars, appVars, calcVars, effectVars, scoreVars >>

\* the estimator call of a suspended iteration fails
EstimatorReject ==
    /\ awaiting > 0
    /\ SetLoop(detectPoseReject(Loop))
    /\ UNCHANGED << phase, props, video, canvasCtx, feedback, lastCommand, lastSettled >>
    /\ UNCHANGED << overlayVars, appVars, calcVars, effectVars, scoreVars >>

\* a scoring call settles, in any order and at any time
ScoringSettle ==
    \E idx \in inflight, response \in ScoringResponses :
       /\ inflight' = inflight \ { idx }
       /\ feedback' = feedbackAfter(response)
       /\ unhandled' = (unhandled \/ scoringThrows(response))
       /\ lastSettled' = outcomeOf(response)
       /\ UNCHANGED << phase, props, video, canvasCtx, animationIdRef, rafNext, rafPending,
                       awaiting, frameIndex, landmarks, poseMatchPercentage,
                       canvas, lastCommand >>
       /\ UNCHANGED << overlayVars, appVars, calcVars, effectVars, scoreVars >>

\* no scoring call has settled
NoSettled == [idx |-> -1, text |-> "", before |-> ""]

\* the text a response carries: its feedback unless that is absent, empty or
\* the sentinel, "" for none
textOf(response) ==
    IF response.kind = "ok" /\ response.hasFeedback /\ response.feedback # NoFeedbackYet
    THEN response.feedback
    ELSE ""

ScoringIdle == settled = NoSettled

\* a scoring call settles, in any order and at any time; the call and its
\* response are recorded
ScoringSettleObserved ==
    \E idx \in inflight, response \in ScoringResponses :
       /\ inflight' = inflight \ { idx }
       /\ feedback' = feedbackAfter(response)
       /\ unhandled' = (unhandled \/ scoringThrows(response))
       /\ lastSettled' = outcomeOf(response)
       /\ settled' = [idx |-> idx, text |-> textOf(response), before |-> feedback]
       /\ UNCHANGED << phase, props, video, canvasCtx, animationIdRef, rafNext, rafPending,
                       awaiting, frameIndex, landmarks, poseMatchPercentage,
                       canvas, lastCommand >>
       /\ UNCHANGED << overlayVars, appVars, calcVars, effectVars >>

\* the frame source changes: the element appears, loads, or is removed
VideoChange ==
    \E v \in VideoStates :
       /\ v # video
       /\ video' = v
       /\ UNCHANGED << phase, props, canvasCtx, animationIdRef, rafNext, rafPending, awaiting,
                       frameIndex, landmarks, poseMatchPercentage, canvas, inflight,
                       feedback, unhandled, lastCommand, lastSettled >>
       /\ UNCHANGED << overlayVars, appVars, calcVars, effectVars, scoreVars >>

Next ==
    \/ Mount
    \/ Start
    \/ Stop
    \/ Unmount
    \/ AnimationFrame
    \/ EstimatorResolve
    \/ EstimatorReject
    \/ ScoringSettle
    \/ VideoChange

\* the same stream with its settled scoring calls observed
ScoringNext ==
    \/ Mount
    \/ Start
    \/ Stop
    \/ Unmount
    \/ AnimationFrame
    \/ EstimatorResolve
    \/ EstimatorReject
    \/ ScoringSettleObserved
    \/ VideoChange

(***************************************************************************)
(* What the presentation shows of the feedback state.                      *)
(***************************************************************************)
\* statistics={feedback ? [feedback] : []}
statistics == IF feedback # "" THEN << feedback >> ELSE << >>

\* statistics.length > 0 && statistics[0] !== ""
overlayHasItem == Len(statistics) > 0 /\ statistics[1] # ""

\* the feedback items in what the dual-stream PoseCanvas renders: its markup is
\* a canvas in a container and nothing else, and the feedback prop is not read
renderedFeedbackItems == << >>

(***************************************************************************)
(* The Overlay mounted by the single-stream PoseCanvas                     *)
(* (<Overlay statistics={feedback ? [feedback] : []} visible={true} />).   *)
(* The statistics prop is a new array on every render of PoseCanvas, and   *)
(* the Overlay's effect depends on [statistics]: the effect runs again     *)
(* after every render of PoseCanvas, its cleanup first.  PoseCanvas        *)
(* renders when its feedback prop changes and when a detected frame calls  *)
(* setLandmarksData.  Time is counted in seconds.                          *)
(***************************************************************************)
\* setTimeout(() => setShow(false), 10000), in seconds
NarratedHideAfter == 10

\* setTimeout(() => setShow(false), 5000) of the Overlay without narration
PlainHideAfter == 5

hideAfter == IF draft = "narrated" THEN NarratedHideAfter ELSE PlainHideAfter

Ov == [ show |-> show, timer |-> timer, currentIndex |-> currentIndex,
        speechQueue |-> speechQueue ]

SetOv(o) ==
    /\ show' = o.show
    /\ timer' = o.timer
    /\ currentIndex' = o.currentIndex
    /\ speechQueue' = o.speechQueue

\* what the functions of one render of the Overlay close over
closureOf(stats) ==
    [ statistics |-> stats, currentIndex |-> currentIndex, isSupported |-> isSupported ]

\* speak(), called from the closure c
speak(o, c) ==
    IF c.isSupported /\ Len(c.statistics) > 0 /\ c.currentIndex < Len(c.statistics)
    THEN [o EXCEPT !.speechQueue =
                      Append(@, [text |-> c.statistics[c.currentIndex + 1], closure |-> c])]
    ELSE IF c.currentIndex >= Len(c.statistics)
         THEN [o EXCEPT !.currentIndex = 0]
         ELSE o

\* return () => clearTimeout(timer)
effectCleanup(o) == [o EXCEPT !.timer = -1]

\* the effect without its cleanup: a hide timeout that is pending stays and
\* fires first
overlayEffectKeepsTimer(o, stats) ==
    IF Len(stats) > 0 /\ stats[1] # ""
    THEN LET shown == [o EXCEPT !.show = TRUE]
             spoken == IF draft = "narrated" THEN speak(shown, closureOf(stats))
                       ELSE shown
         IN [spoken EXCEPT !.timer = IF o.timer >= 0 THEN o.timer ELSE hideAfter]
    ELSE [o EXCEPT !.show = FALSE]

\* the effect of the Overlay for the statistics of the render just committed,
\* after the cleanup of the previous run
overlayEffect(o, stats) ==
    LET cleaned == effectCleanup(o)
    IN IF Len(stats) > 0 /\ stats[1] # ""
       THEN LET shown == [cleaned EXCEPT !.show = TRUE]
                spoken == IF draft = "narrated" THEN speak(shown, closureOf(stats))
                          ELSE shown
            IN [spoken EXCEPT !.timer = hideAfter]
       ELSE [cleaned EXCEPT !.show = FALSE]

\* the timeout's callback: setShow(false)
timeoutFires(o) == [o EXCEPT !.show = FALSE, !.timer = -1]

\* utterance.onend of the first utterance of the queue:
\* setCurrentIndex(prevIndex => prevIndex + 1); speak()
utteranceEnds(o) ==
    LET u == Head(o.speechQueue)
        ended == [o EXCEPT !.speechQueue = Tail(@), !.currentIndex = @ + 1]
    IN speak(ended, u.closure)

\* mount of PoseCanvas with no feedback: the effect runs with statistics = []
OverlayInit ==
    /\ draft \in { "narrated", "plain" }
    /\ isSupported \in BOOLEAN
    /\ show = FALSE
    /\ timer = -1
    /\ currentIndex = 0
    /\ speechQueue = << >>
    /\ shownFor = 0
    /\ expired = FALSE
    /\ replacedTimer = -1

\* room left in the explored range of the narration
OverlayInBounds == Len(speechQueue) < MaxQueue

\* a scoring call of the stream settles; a changed feedback state renders
\* PoseCanvas with the new prop, an unchanged one renders nothing
FeedbackResponse ==
    \E response \in ScoringResponses :
       /\ OverlayInBounds
       /\ feedback' = feedbackAfter(response)
       /\ lastSettled' = outcomeOf(response)
       /\ IF feedback' # feedback
          THEN /\ SetOv(overlayEffect(Ov, statistics'))
               /\ shownFor' = 0
               /\ expired' = FALSE
               /\ replacedTimer' = IF show THEN timer ELSE -1
          ELSE UNCHANGED << show, timer, currentIndex, speechQueue, shownFor, expired,
                            replacedTimer >>
       /\ UNCHANGED << draft, isSupported >>
       /\ UNCHANGED << phase, props, video, canvasCtx, animationIdRef, rafNext, rafPending,
                       awaiting, frameIndex, landmarks, poseMatchPercentage,
                       canvas, inflight, unhandled, lastCommand >>
       /\ UNCHANGED << appVars, calcVars, effectVars, scoreVars >>

\* a detected frame calls setLandmarksData: PoseCanvas renders again with the
\* same feedback
FrameRender ==
    /\ OverlayInBounds
    /\ SetOv(overlayEffect(Ov, statistics))
    /\ shownFor' = IF show THEN shownFor ELSE 0
    /\ UNCHANGED << draft, isSupported, expired, replacedTimer >>
    /\ UNCHANGED << loopVars, appVars, calcVars, effectVars, scoreVars >>

\* one second passes; a timeout that is due fires before time goes on
Tick ==
    /\ timer # 0
    /\ shownFor < MaxShown
    /\ timer' = IF timer > 0 THEN timer - 1 ELSE timer
    /\ shownFor' = IF show THEN shownFor + 1 ELSE shownFor
    /\ UNCHANGED << draft, isSupported, show, currentIndex, speechQueue, expired,
                    replacedTimer >>
    /\ UNCHANGED << loopVars, appVars, calcVars, effectVars, scoreVars >>

\* the hide timeout fires
TimeoutFires ==
    /\ timer = 0
    /\ SetOv(timeoutFires(Ov))
    /\ expired' = TRUE
    /\ UNCHANGED << draft, isSupported, shownFor, replacedTimer >>
    /\ UNCHANGED << loopVars, appVars, calcVars, effectVars, scoreVars >>

\* the utterance being spoken ends
UtteranceEnds ==
    /\ speechQueue # << >>
    /\ currentIndex < MaxIndex
    /\ SetOv(utteranceEnds(Ov))
    /\ UNCHANGED << draft, isSupported, shownFor, expired, replacedTimer >>
    /\ UNCHANGED << loopVars, appVars, calcVars, effectVars, scoreVars >>

OverlayNext ==
    \/ FeedbackResponse
    \/ FrameRender
    \/ Tick
    \/ TimeoutFires
    \/ UtteranceEnds

\* the Overlay before anything is shown, where it is not under study
OverlayIdle ==
    /\ OverlayInit
    /\ draft = "plain"
    /\ isSupported = FALSE

\* the single PoseCanvas before its mount effect, where it is not under study
LoopIdle ==
    /\ Init
    /\ poseLandmarker
    /\ videoDimensions = [width |-> 640, height |-> 480]
    /\ otherLandmarks = << >>
    /\ video = [present |-> FALSE, readyState |-> 0]
    /\ canvasCtx

(***************************************************************************)
(* The dual-stream page (App.js): the controller's state, the uploaded     *)
(* video element, and the two PoseCanvas instances it mounts.  Both        *)
(* instances are given the same ref object, poseCanvasRef:                 *)
(* useImperativeHandle has no dependency list, so each instance writes its *)
(* handle into the ref after every render, in document order, the webcam   *)
(* instance last.  A handler and the render it causes are one step.        *)
(*                                                                         *)
(* A stream is a record of the shape of Loop.  Its landmarks field is      *)
(* App's state for that source (uploadedVideoLandmarks, webcamLandmarks)   *)
(* and outlives the instance; its video field is App's video element of    *)
(* that source; its otherLandmarks field is the prop the instance's first  *)
(* render received.  The feedback state of each source                     *)
(* (uploadedVideoFeedback, webcamFeedback) is the controller's.            *)
(*                                                                         *)
(* The cleanup of the mount effect only cancels the stored request: an     *)
(* iteration suspended at the await of the estimator, or a request whose   *)
(* id was overwritten, outlives its instance.  When a source is mounted    *)
(* again, the instance it had before is kept in `retired` for as long as   *)
(* it has such work left.                                                  *)
(*                                                                         *)
(* The controller holds App's state (currentTime is the currentTime state) *)
(* and what the handlers read and write of the uploaded video element:     *)
(* videoTime is the element's currentTime, metadataDue says that the       *)
(* loadedmetadata event of the current src has not been delivered,         *)
(* cameraRequests counts the calls of getUserMedia not yet settled, and    *)
(* srcObject says that a camera stream is attached to the webcam element.  *)
(* The slider's range is the duration state, 0 until the first             *)
(* loadedmetadata handler has run.  The events of the element are          *)
(* delivered in the order they are queued: timeupdate and ended come after *)
(* the loadedmetadata of the same src, so the ontimeupdate handler is      *)
(* installed when a timeupdate is delivered.                               *)
(***************************************************************************)
Sources == { "uploaded", "webcam" }

counterpart(s) == IF s = "uploaded" THEN "webcam" ELSE "uploaded"

\* answers of the scoring service followed on the dual-stream page: a call
\* that fails and a feedback text (a silent answer leaves the page as a
\* failed call does)
AppScoringResponses ==
    { [kind |-> "network_error", hasFeedback |-> FALSE, feedback |-> ""],
      [kind |-> "ok", hasFeedback |-> TRUE, feedback |-> "Straighten your back"] }

\* results of detectForVideo followed on the dual-stream page: a detected
\* pose (what the comparison makes of two sets is followed on one instance)
AppEstimatorResults ==
    { [hasLandmarks |-> TRUE, landmarks |-> << PoseA >>, hasWorld |-> TRUE] }

\* a source before any PoseCanvas was mounted for it
NoInstance ==
    [ phase |-> "unmounted", poseLandmarker |-> FALSE,
      videoDimensions |-> [width |-> 640, height |-> 480],
      otherLandmarks |-> << >>,
      video |-> [present |-> TRUE, readyState |-> 0], canvasCtx |-> TRUE,
      animationIdRef |-> 0, rafNext |-> 1, rafPending |-> { }, awaiting |-> 0,
      frameIndex |-> 0, landmarks |-> << >>, poseMatchPercentage |-> Num(100),
      canvas |-> "blank", inflight |-> { }, unhandled |-> FALSE, cancelCalls |-> 0 ]

\* the page as one value: c is the controller, s the two streams, old the
\* earlier instances of each source
World == [c |-> controller, s |-> streams, old |-> retired]

\* an unmounted instance can still take a step: an iteration of it is
\* suspended, a frame it requested is pending or a scoring call of it has not
\* settled
stillRuns(l) == l.awaiting > 0 \/ l.rafPending # { } \/ l.inflight # { }

\* an earlier instance as it is kept: the video element and the landmark
\* state are App's, not the instance's
retire(l) ==
    [l EXCEPT !.video = NoInstance.video, !.landmarks = << >>, !.cancelCalls = 0]

SetWorld(w) ==
    /\ controller' = w.c
    /\ streams' = [src \in Sources |-> [w.s[src] EXCEPT !.cancelCalls = 0]]
    /\ retired' = [src \in Sources |-> SelectSeq(w.old[src], stillRuns)]

isMounted(w, src) == w.s[src].phase = "mounted"

\* poseCanvasRef.current: the handle written last
refTarget(w) ==
    IF isMounted(w, "webcam") THEN "webcam"
    ELSE IF isMounted(w, "uploaded") THEN "uploaded"
    ELSE "none"

\* if (poseCanvasRef.current) poseCanvasRef.current.stopPoseDetection()
stopViaRef(w) ==
    IF refTarget(w) = "none" THEN w
    ELSE [w EXCEPT !.s[refTarget(w)] = stopPoseDetection(@)]

\* if (poseCanvasRef.current) poseCanvasRef.current.startPoseDetection()
startViaRef(w) ==
    IF refTarget(w) = "none" THEN w
    ELSE [w EXCEPT !.s[refTarget(w)] = startPoseDetection(@)]

\* the JSX conditions under which each PoseCanvas is rendered
shouldMount(c, src) ==
    IF src = "uploaded" THEN c.uploadedVideo /\ c.landmarkersLoaded
    ELSE c.isWebcamStreaming /\ c.landmarkersLoaded

\* a new PoseCanvas instance of a source: fresh refs and state, the props of
\* its first render, then its mount effect.  The instance the source had
\* before keeps its suspended iterations and its pending requests.
mountInstance(w, src) ==
    [w EXCEPT !.s[src] =
                  startPoseDetection(
                      [NoInstance EXCEPT !.phase = "mounted", !.poseLandmarker = TRUE,
                                         !.otherLandmarks = w.s[counterpart(src)].landmarks,
                                         !.video = w.s[src].video,
                                         !.landmarks = w.s[src].landmarks]),
              !.old[src] = IF stillRuns(w.s[src]) THEN Append(@, retire(w.s[src])) ELSE @]

\* the cleanup of the mount effect; the canvas leaves the document
unmountInstance(l) == [stopPoseDetection(l) EXCEPT !.phase = "unmounted"]

\* the render after a state change, for one source
commitSource(w, src) ==
    IF shouldMount(w.c, src) /\ ~isMounted(w, src) THEN mountInstance(w, src)
    ELSE IF ~shouldMount(w.c, src) /\ isMounted(w, src)
    THEN [w EXCEPT !.s[src] = unmountInstance(@)]
    ELSE w

\* the render after a state change: instances are mounted and unmounted, each
\* with the landmark props of this render
commit(w) ==
    LET up == commitSource(w, "uploaded")
        cam == commitSource(w, "webcam")
    IN [w EXCEPT !.s = [src \in Sources |->
                           IF src = "uploaded" THEN up.s[src] ELSE cam.s[src]],
                 !.old = [src \in Sources |->
                           IF src = "uploaded" THEN up.old[src] ELSE cam.old[src]]]

\* the media element's ended: it has metadata and its position is the end
ended(w) == w.s["uploaded"].video.readyState >= 1 /\ w.c.videoTime = MediaLength

\* uploadedVideoRef.current.play(): an element that has ended seeks to its start
play(w) == IF ended(w) THEN [w EXCEPT !.c.videoTime = 0] ELSE w

\* variant: the stop resets the session only while it is playing
toggleStopWhilePlaying(w) ==
    IF w.c.isPlaying
    THEN LET streaming == [w EXCEPT !.c.isWebcamStreaming = FALSE]
             stopped == stopViaRef(streaming)
         IN [stopped EXCEPT !.c.videoTime = 0, !.c.currentTime = 0, !.c.isPlaying = FALSE]
    ELSE w

\* toggleStop
toggleStop(w) ==
    LET streaming == [w EXCEPT !.c.isWebcamStreaming = FALSE]
        stopped == stopViaRef(streaming)
    IN [stopped EXCEPT !.c.videoTime = 0, !.c.currentTime = 0, !.c.isPlaying = FALSE]

\* variant: play does not switch the live stream on
togglePlayPauseWithoutWebcam(w) ==
    IF w.c.isPlaying
    THEN stopViaRef([w EXCEPT !.c.isPlaying = FALSE])
    ELSE LET started == startViaRef(w)
         IN [play(started) EXCEPT !.c.isPlaying = TRUE]

\* variant: the pause branch leaves isPlaying set
togglePlayPauseStaysPlaying(w) ==
    IF w.c.isPlaying
    THEN stopViaRef(w)
    ELSE LET started == startViaRef(w)
         IN [play(started) EXCEPT !.c.isWebcamStreaming = TRUE, !.c.isPlaying = TRUE]

\* togglePlayPause
togglePlayPause(w) ==
    IF w.c.isPlaying
    THEN stopViaRef([w EXCEPT !.c.isPlaying = FALSE])
    ELSE LET started == startViaRef(w)
         IN [play(started) EXCEPT !.c.isWebcamStreaming = TRUE, !.c.isPlaying = TRUE]

\* handleSliderChange
handleSliderChange(w, newValue) ==
    [w EXCEPT !.c.videoTime = newValue, !.c.currentTime = newValue]

\* variant: the file is examined first, and only a video file stops the session
handleVideoUploadChecksFirst(w, isVideoFile) ==
    IF isVideoFile
    THEN [toggleStop(w) EXCEPT !.c.uploadedVideo = TRUE,
                               !.c.metadataDue = TRUE,
                               !.s["uploaded"].video.readyState = 0]
    ELSE w

\* handleVideoUpload; a new src empties the video element and starts its load
handleVideoUpload(w, isVideoFile) ==
    LET stopped == toggleStop(w)
    IN IF isVideoFile
       THEN [stopped EXCEPT !.c.uploadedVideo = TRUE,
                            !.c.metadataDue = TRUE,
                            !.s["uploaded"].video.readyState = 0]
       ELSE stopped

\* startWebcam up to the await of getUserMedia
startWebcam(w) == [w EXCEPT !.c.cameraRequests = @ + 1]

\* startWebcam after the await: webcamRef.current.srcObject = stream, which
\* empties the webcam element and starts the load of the stream; a rejection
\* is logged
startWebcamResume(w, granted) ==
    LET answered == [w EXCEPT !.c.cameraRequests = @ - 1]
    IN IF granted
       THEN [answered EXCEPT !.c.srcObject = TRUE,
                             !.s["webcam"].video.readyState = 0]
       ELSE answered

\* the onloadedmetadata handler: startWebcam(), setDuration, ontimeupdate is set
onloadedmetadata(w) ==
    [startWebcam(w) EXCEPT !.c.metadataDue = FALSE,
                           !.c.duration = MediaLength,
                           !.s["uploaded"].video.readyState =
                               IF @ < 1 THEN 1 ELSE @]

\* the ontimeupdate handler: setCurrentTime(uploadedVideoRef.current.currentTime)
ontimeupdate(w) == [w EXCEPT !.c.currentTime = w.c.videoTime]

\* sendLandmarksToBackend after the await of fetch, its call having settled
\* with `response`: setFeedback is App's setter of the source, whichever
\* instance made the call
settleScoring(w, src, response) ==
    IF response.kind = "ok" /\ feedbackAccepted(response)
    THEN [w EXCEPT !.c.feedback[src] = response.feedback]
    ELSE w

\* an earlier instance as its closure sees it: App's video element
oldInstance(w, src, i) ==
    [w.old[src][i] EXCEPT !.video = w.s[src].video, !.landmarks = w.s[src].landmarks]

\* a step of an earlier instance: updateLandmarks writes App's state
stepOld(w, src, i, l) ==
    [w EXCEPT !.s[src].landmarks = l.landmarks, !.old[src][i] = retire(l)]

\* the controls are rendered
controlsShown == controller.uploadedVideo /\ controller.landmarkersLoaded

\* the sum of a quantity over the instances of a sequence
RECURSIVE sumOf(_, _)
sumOf(q(_), instances) ==
    IF instances = << >> THEN 0
    ELSE q(Head(instances)) + sumOf(q, Tail(instances))

\* the sum of a quantity over every instance of the page
onPage(q(_)) ==
    q(streams["uploaded"]) + q(streams["webcam"])
        + sumOf(q, retired["uploaded"]) + sumOf(q, retired["webcam"])

idsTaken(l) == l.rafNext - 1

suspended(l) == l.awaiting

detections(l) == l.frameIndex

\* room left in the explored range of requests and detections of the page
RequestsInBounds ==
    onPage(idsTaken) < AppMaxRafId /\ onPage(detections) < AppMaxFrames

\* room left in the explored range of the page
PageInBounds == RequestsInBounds /\ onPage(suspended) < AppMaxAwait

AppInit ==
    /\ controller = [ landmarkersLoaded |-> FALSE, uploadedVideo |-> FALSE,
                      isWebcamStreaming |-> FALSE, isPlaying |-> FALSE,
                      currentTime |-> 0, duration |-> 0, videoTime |-> 0,
                      metadataDue |-> FALSE, cameraRequests |-> 0,
                      srcObject |-> FALSE, feedback |-> [src \in Sources |-> ""] ]
    /\ streams = [src \in Sources |-> NoInstance]
    /\ retired = [src \in Sources |-> << >>]
    /\ lastEvent = "none"

AppRest == UNCHANGED << loopVars, overlayVars, calcVars, effectVars, scoreVars >>

\* loadPoseLandmarkers has resolved: both estimators are set
LandmarkersLoaded ==
    /\ ~controller.landmarkersLoaded
    /\ SetWorld(commit([World EXCEPT !.c.landmarkersLoaded = TRUE]))
    /\ lastEvent' = "other"
    /\ AppRest

\* the user picks a file
VideoUpload ==
    \E isVideoFile \in BOOLEAN :
       /\ SetWorld(commit(handleVideoUpload(World, isVideoFile)))
       /\ lastEvent' = IF isVideoFile THEN "upload" ELSE "rejected upload"
       /\ AppRest

\* the loadedmetadata event of the uploaded video is delivered
VideoMetadataLoaded ==
    /\ controller.metadataDue
    /\ controller.cameraRequests < MaxCameraRequests
    /\ SetWorld(commit(onloadedmetadata(World)))
    /\ lastEvent' = "other"
    /\ AppRest

\* the uploaded video has loaded its first frame
VideoLoaded ==
    /\ controller.uploadedVideo
    /\ streams["uploaded"].video.readyState < 2
    /\ SetWorld([World EXCEPT !.s["uploaded"].video.readyState = 2])
    /\ lastEvent' = "other"
    /\ AppRest

\* getUserMedia resolves: startWebcam attaches the camera stream
WebcamStarted ==
    /\ controller.cameraRequests > 0
    /\ SetWorld(startWebcamResume(World, TRUE))
    /\ lastEvent' = "other"
    /\ AppRest

\* the webcam element has the first frame of the stream attached to it
WebcamLoaded ==
    /\ controller.srcObject
    /\ streams["webcam"].video.readyState < 2
    /\ SetWorld([World EXCEPT !.s["webcam"].video.readyState = 2])
    /\ lastEvent' = "other"
    /\ AppRest

\* getUserMedia rejects: startWebcam logs the error
WebcamDenied ==
    /\ controller.cameraRequests > 0
    /\ SetWorld(startWebcamResume(World, FALSE))
    /\ lastEvent' = "other"
    /\ AppRest

\* the play/pause button
TogglePlayPause ==
    /\ controlsShown
    /\ controller.isPlaying \/ PageInBounds
    /\ SetWorld(commit(togglePlayPause(World)))
    /\ lastEvent' = IF controller.isPlaying THEN "pause" ELSE "play"
    /\ AppRest

\* the stop button, rendered while playing
ToggleStop ==
    /\ controlsShown
    /\ controller.isPlaying
    /\ SetWorld(commit(toggleStop(World)))
    /\ lastEvent' = "stop"
    /\ AppRest

\* the slider is moved: its range is 0 .. duration
SliderChange ==
    \E newValue \in 0..controller.duration :
       /\ controlsShown
       /\ newValue # controller.currentTime
       /\ SetWorld(commit(handleSliderChange(World, newValue)))
       /\ lastEvent' = IF newValue = 0 THEN "seek to start" ELSE "other"
       /\ AppRest

\* playback advances and its timeupdate event is delivered
Playback ==
    /\ controller.isPlaying
    /\ ~controller.metadataDue
    /\ streams["uploaded"].video.readyState = 2
    /\ controller.videoTime < MediaLength
    /\ SetWorld(ontimeupdate([World EXCEPT !.c.videoTime = @ + 1]))
    /\ lastEvent' = "other"
    /\ AppRest

\* the timeupdate event of a seek the element made itself is delivered
TimeUpdate ==
    /\ ~controller.metadataDue
    /\ controller.currentTime # controller.videoTime
    /\ SetWorld(ontimeupdate(World))
    /\ lastEvent' = "other"
    /\ AppRest

\* playback reaches the end of the media: the ended listener calls toggleStop
VideoEnded ==
    /\ controller.isPlaying
    /\ ~controller.metadataDue
    /\ streams["uploaded"].video.readyState = 2
    /\ controller.videoTime = MediaLength
    /\ SetWorld(commit(toggleStop(World)))
    /\ lastEvent' = "ended"
    /\ AppRest

\* the browser runs a requested animation-frame callback of a stream
StreamAnimationFrame ==
    \E src \in Sources : \E id \in streams[src].rafPending :
       /\ PageInBounds
       /\ SetWorld([World EXCEPT !.s[src] =
                        detectPoseBegin([@ EXCEPT !.rafPending = @ \ { id }])])
       /\ lastEvent' = "other"
       /\ AppRest

\* the estimator answers a suspended iteration of a stream
StreamEstimatorResolve ==
    \E src \in Sources, result \in AppEstimatorResults :
       /\ streams[src].awaiting > 0
       /\ RequestsInBounds
       /\ SetWorld([World EXCEPT !.s[src] = detectPoseResume(@, result)])
       /\ lastEvent' = "other"
       /\ AppRest

\* the browser runs a requested animation-frame callback of an earlier
\* instance; the callback takes a new id only when the source is not ready
OldAnimationFrame ==
    \E src \in Sources : \E i \in 1..Len(retired[src]) :
       \E id \in retired[src][i].rafPending :
          /\ sourceReady(oldInstance(World, src, i))
                \/ onPage(idsTaken) < AppMaxRafId
          /\ SetWorld(stepOld(World, src, i,
                 detectPoseBegin([oldInstance(World, src, i)
                                    EXCEPT !.rafPending = @ \ { id }])))
          /\ lastEvent' = "other"
          /\ AppRest

\* the estimator answers a suspended iteration of an earlier instance
OldEstimatorResolve ==
    \E src \in Sources, result \in AppEstimatorResults :
       \E i \in 1..Len(retired[src]) :
          /\ retired[src][i].awaiting > 0
          /\ RequestsInBounds
          /\ SetWorld(stepOld(World, src, i,
                 detectPoseResume(oldInstance(World, src, i), result)))
          /\ lastEvent' = "other"
          /\ AppRest

\* a scoring call of a stream's instance settles, in any order and at any time
StreamScoringSettle ==
    \E src \in Sources, response \in AppScoringResponses :
       \E idx \in streams[src].inflight :
          /\ SetWorld(settleScoring([World EXCEPT !.s[src].inflight = @ \ { idx }],
                                    src, response))
          /\ lastEvent' = "other"
          /\ AppRest

\* a scoring call of an earlier instance settles
OldScoringSettle ==
    \E src \in Sources, response \in AppScoringResponses :
       \E i \in 1..Len(retired[src]) : \E idx \in retired[src][i].inflight :
          /\ SetWorld(settleScoring([World EXCEPT !.old[src][i].inflight = @ \ { idx }],
                                    src, response))
          /\ lastEvent' = "other"
          /\ AppRest

AppNext ==
    \/ LandmarkersLoaded
    \/ VideoUpload
    \/ VideoMetadataLoaded
    \/ VideoLoaded
    \/ WebcamStarted
    \/ WebcamDenied
    \/ WebcamLoaded
    \/ TogglePlayPause
    \/ ToggleStop
    \/ SliderChange
    \/ Playback
    \/ TimeUpdate
    \/ VideoEnded
    \/ StreamAnimationFrame
    \/ StreamEstimatorResolve
    \/ OldAnimationFrame
    \/ OldEstimatorResolve
    \/ StreamScoringSettle
    \/ OldScoringSettle

\* the page before anything is loaded, where it is not under study
AppIdle == AppInit

(***************************************************************************)
(* The comparison of detectPose and the draw colour as functions of their  *)
(* inputs.  The landmark sets compared here differ only along z in their   *)
(* first landmark, so every distance is a whole number of quarters.        *)
(***************************************************************************)
PoseNear == << Pt(0, 0, 1), Pt(4, 4, 0) >>

PoseHalf == << Pt(0, 0, 2), Pt(4, 4, 0) >>

PoseFar == << Pt(0, 0, 4), Pt(4, 4, 0) >>

PoseNoZ == << PtNoZ(0, 0), PtNoZ(4, 4) >>

PoseLong == << Pt(0, 0, 0), Pt(4, 4, 0), Pt(2, 2, 0) >>

\* landmark sets of the current stream
CurrentSets == { PoseA, PoseNear, PoseHalf, PoseFar, PoseNoZ, PoseShort, PoseLong }

\* landmark sets of the counterpart; [] is App's initial state
CounterpartSets == CurrentSets \cup { << >> }

\* Math.round(255 * (percentage / 100)) for a percentage that is a whole number
roundedShare(percentage) ==
    IF percentage.nan THEN NaN ELSE Num((255 * percentage.val + 50) \div 100)

\* getColorFromPercentage: `rgb(${value}, ${value}, ${value})`
getColorFromPercentage(percentage) ==
    LET value == roundedShare(percentage)
    IN [r |-> value, g |-> value, b |-> value]

NoComparison == [threw |-> FALSE, percentage |-> Num(100), color |-> << >>]

\* variant: the comparison is made with an empty counterpart too
comparisonOfAlwaysCompares(currentLandmarks, others) ==
    IF comparisonThrows(currentLandmarks, others)
    THEN [threw |-> TRUE, percentage |-> Num(100), color |-> << >>]
    ELSE LET matchPercentage == matchPercentageOf(currentLandmarks, others)
         IN [threw |-> FALSE, percentage |-> matchPercentage,
             color |-> getColorFromPercentage(matchPercentage)]

\* what one iteration of detectPose computes from the current landmark set
\* and otherLandmarks: the match percentage and the draw colour, or a TypeError
comparisonOf(currentLandmarks, others) ==
    IF Len(others) > 0 /\ comparisonThrows(currentLandmarks, others)
    THEN [threw |-> TRUE, percentage |-> Num(100), color |-> << >>]
    ELSE LET matchPercentage ==
                 IF Len(others) > 0
                 THEN matchPercentageOf(currentLandmarks, others)
                 ELSE Num(100)
         IN [threw |-> FALSE, percentage |-> matchPercentage,
             color |-> getColorFromPercentage(matchPercentage)]

InitComparison ==
    comparison \in { [current |-> c, others |-> o, done |-> FALSE,
                      result |-> NoComparison] :
                        c \in CurrentSets, o \in CounterpartSets }

\* the iteration compares its landmark set with otherLandmarks
Compare ==
    /\ ~comparison.done
    /\ comparison' = [comparison EXCEPT
                         !.done = TRUE,
                         !.result = comparisonOf(comparison.current, comparison.others)]
    /\ UNCHANGED << loopVars, overlayVars, appVars, scaling, effectVars, scoreVars >>

CompareNext == Compare

\* no comparison made, where the comparison is not under study
ComparisonIdle ==
    comparison = [current |-> PoseA, others |-> << >>, done |-> FALSE,
                  result |-> NoComparison]

(***************************************************************************)
(* getScaledDimensions of the video player.  Its divisions are exact here: *)
(* a number is a fraction in lowest terms, [num, den] with den > 0.        *)
(***************************************************************************)
MaxDim == 6

MaxBox == 4

RECURSIVE Gcd(_, _)
Gcd(a, b) == IF b = 0 THEN a ELSE Gcd(b, a % b)

Frac(n, d) == LET g == Gcd(n, d) IN [num |-> n \div g, den |-> d \div g]

FracDiv(x, y) == Frac(x.num * y.den, x.den * y.num)

FracMul(x, y) == Frac(x.num * y.num, x.den * y.den)

FracGt(x, y) == x.num * y.den > y.num * x.den

\* the second test rescales the height but keeps the width
getScaledDimensionsKeepsWidth(width, height, maxWidth, maxHeight) ==
    LET aspectRatio == Frac(width, height)
        width1  == IF width > maxWidth THEN Frac(maxWidth, 1) ELSE Frac(width, 1)
        height1 == IF width > maxWidth
                   THEN FracDiv(width1, aspectRatio) ELSE Frac(height, 1)
        height2 == IF FracGt(height1, Frac(maxHeight, 1))
                   THEN Frac(maxHeight, 1) ELSE height1
    IN [width |-> width1, height |-> height2]

\* getScaledDimensions(width, height, maxWidth, maxHeight)
getScaledDimensions(width, height, maxWidth, maxHeight) ==
    LET aspectRatio == Frac(width, height)
        \* if (width > maxWidth) { width = maxWidth; height = width / aspectRatio }
        width1  == IF width > maxWidth THEN Frac(maxWidth, 1) ELSE Frac(width, 1)
        height1 == IF width > maxWidth
                   THEN FracDiv(width1, aspectRatio) ELSE Frac(height, 1)
        \* if (height > maxHeight) { height = maxHeight; width = height * aspectRatio }
        tooHigh == FracGt(height1, Frac(maxHeight, 1))
        height2 == IF tooHigh THEN Frac(maxHeight, 1) ELSE height1
        width2  == IF tooHigh THEN FracMul(height2, aspectRatio) ELSE width1
    IN [width |-> width2, height |-> height2]

NoDimensions == [width |-> Frac(0, 1), height |-> Frac(0, 1)]

InitScaling ==
    scaling \in { [width |-> w, height |-> h, maxWidth |-> mw, maxHeight |-> mh,
                   done |-> FALSE, scaledDimensions |-> NoDimensions] :
                     w \in 1..MaxDim, h \in 1..MaxDim,
                     mw \in 1..MaxBox, mh \in 1..MaxBox }

\* onloadedmetadata scales the dimensions of the video into the box
Scale ==
    /\ ~scaling.done
    /\ scaling' = [scaling EXCEPT
                      !.done = TRUE,
                      !.scaledDimensions =
                          getScaledDimensions(scaling.width, scaling.height,
                                              scaling.maxWidth, scaling.maxHeight)]
    /\ UNCHANGED << loopVars, overlayVars, appVars, comparison, effectVars, scoreVars >>

ScaleNext == Scale

\* no video loaded, where the scaling is not under study
ScalingIdle ==
    scaling = [width |-> 1, height |-> 1, maxWidth |-> 1, maxHeight |-> 1,
               done |-> FALSE, scaledDimensions |-> NoDimensions]

CalcIdle == ComparisonIdle /\ ScalingIdle

(***************************************************************************)
(* The single-stream PoseCanvas, whose loop is started by an effect with   *)
(* the dependencies [videoRef, poseLandmarker, videoDimensions,            *)
(* setTimedFeedback].  Every run of the effect has its own animationId and *)
(* its own detectPose, closed over the props of the render it belongs to.  *)
(* A run is [poseLandmarker, videoDimensions, animationId, pending,        *)
(* awaiting, cleaned, iteratedAfterCleanup]: animationId is 0 while        *)
(* undefined, pending the id of the frame it has requested (0 for none).   *)
(* A second effect, with the dependencies [isFullScreen, videoDimensions], *)
(* sizes the canvas; it is declared first and runs first in a commit.      *)
(***************************************************************************)
MaxRuns == 3

MaxEffectRafId == 3

MaxEffectFrames == 2

\* useState({ width: 480, height: 360 }) of the page, and a scaled size
EffectDimensions == { [width |-> 480, height |-> 360], [width |-> 800, height |-> 600] }

\* window.innerWidth and window.innerHeight
WindowSize == [width |-> 1920, height |-> 1080]

\* the effect that sizes the canvas: to the window in full screen, to
\* videoDimensions otherwise; an assignment to width or height clears the canvas
resizeEffect(e) ==
    [e EXCEPT !.canvas.size = IF e.isFullScreen THEN WindowSize
                              ELSE e.props.videoDimensions,
              !.canvas.shows = "blank"]

\* videoRef.current && poseLandmarker && videoRef.current.readyState >= 2
effectSourceReady(e, i) ==
    e.video.present /\ e.runs[i].poseLandmarker /\ e.video.readyState >= 2

\* animationId = requestAnimationFrame(detectPose), in run i
effectRequestFrame(e, i) ==
    [e EXCEPT !.runs[i].animationId = e.rafNext,
              !.runs[i].pending = e.rafNext,
              !.rafNext = @ + 1]

\* detectPose of run i up to its await, or to its end when the source is not ready
effectDetectPose(e, i) ==
    LET begun == [e EXCEPT !.runs[i].iteratedAfterCleanup = @ \/ e.runs[i].cleaned]
    IN IF effectSourceReady(begun, i)
       THEN [begun EXCEPT !.canvas = [size |-> begun.runs[i].videoDimensions,
                                      shows |-> "video", by |-> i],
                          !.runs[i].awaiting = TRUE]
       ELSE effectRequestFrame(begun, i)

\* detectPose of run i after its await; setLandmarksData of an unmounted
\* component does nothing
effectDetectPoseResume(e, i, result) ==
    LET resumed == [e EXCEPT !.runs[i].awaiting = FALSE]
        drawn == IF Len(result) > 0
                 THEN [resumed EXCEPT !.canvas.shows = "landmarks",
                                      !.canvas.by = i,
                                      !.landmarksData =
                                          IF e.phase = "mounted" THEN result ELSE @,
                                      !.frameIndex = @ + 1]
                 ELSE resumed
    IN effectRequestFrame(drawn, i)

\* return () => { cancelAnimationFrame(animationId); }, of run i
detectionCleanup(e, i) ==
    [e EXCEPT !.runs[i].cleaned = TRUE,
              !.runs[i].pending =
                  IF @ = e.runs[i].animationId THEN 0 ELSE @]

\* the effect runs for the props of the render just committed
detectionEffect(e) ==
    LET i == Len(e.runs) + 1
        started == [e EXCEPT !.runs = Append(@,
                       [poseLandmarker |-> e.props.poseLandmarker,
                        videoDimensions |-> e.props.videoDimensions,
                        animationId |-> 0, pending |-> 0, awaiting |-> FALSE,
                        cleaned |-> FALSE, iteratedAfterCleanup |-> FALSE])]
    IN effectDetectPose(started, i)

EffectInit ==
    effects \in { [phase |-> "rendered",
                   props |-> [poseLandmarker |-> pl,
                              videoDimensions |-> [width |-> 480, height |-> 360]],
                   video |-> [present |-> TRUE, readyState |-> rs],
                   runs |-> << >>, rafNext |-> 1, frameIndex |-> 0,
                   landmarksData |-> << >>, isFullScreen |-> FALSE,
                   canvas |-> [size |-> [width |-> 300, height |-> 150],
                               shows |-> "blank", by |-> 0]] :
                     pl \in BOOLEAN, rs \in { 0, 4 } }

EffectRest == UNCHANGED << loopVars, overlayVars, appVars, calcVars, scoreVars >>

\* PoseCanvas mounts: the canvas is sized, then the detection effect runs for
\* the first time
EffectMount ==
    /\ effects.phase = "rendered"
    /\ effects' = detectionEffect(resizeEffect([effects EXCEPT !.phase = "mounted"]))
    /\ EffectRest

\* the page renders PoseCanvas with a new poseLandmarker or a new
\* videoDimensions object: cleanup of the last run, the canvas is sized again
\* when the dimensions are new, then the detection effect again
EffectDepsChange ==
    /\ effects.phase = "mounted"
    /\ Len(effects.runs) < MaxRuns
    /\ \E which \in { "poseLandmarker", "videoDimensions" }, d \in EffectDimensions :
          LET nextProps == IF which = "poseLandmarker"
                           THEN [effects.props EXCEPT !.poseLandmarker = TRUE]
                           ELSE [effects.props EXCEPT !.videoDimensions = d]
              cleaned == detectionCleanup(effects, Len(effects.runs))
              rendered == [cleaned EXCEPT !.props = nextProps]
              sized == IF which = "videoDimensions" THEN resizeEffect(rendered)
                       ELSE rendered
          IN effects' = detectionEffect(sized)
    /\ EffectRest

\* fullscreenchange: handleFullScreenChange sets isFullScreen and the canvas
\* is sized again
EffectFullScreenChange ==
    /\ effects.phase = "mounted"
    /\ effects' = resizeEffect([effects EXCEPT !.isFullScreen = ~@])
    /\ EffectRest

\* PoseCanvas unmounts: cleanup of the last run
EffectUnmount ==
    /\ effects.phase = "mounted"
    /\ effects' = [detectionCleanup(effects, Len(effects.runs))
                      EXCEPT !.phase = "unmounted"]
    /\ EffectRest

\* the video element has data for the current frame
EffectVideoReady ==
    /\ effects.video.readyState < 2
    /\ effects' = [effects EXCEPT !.video.readyState = 4]
    /\ EffectRest

\* the browser runs the frame callback a run has requested
EffectAnimationFrame ==
    \E i \in DOMAIN effects.runs :
       /\ effects.runs[i].pending # 0
       /\ effects.rafNext <= MaxEffectRafId
       /\ effects' = effectDetectPose([effects EXCEPT !.runs[i].pending = 0], i)
       /\ EffectRest

\* detectForVideo resolves for a suspended iteration
EffectEstimatorResolve ==
    \E i \in DOMAIN effects.runs, result \in { << >>, PoseA } :
       /\ effects.runs[i].awaiting
       /\ effects.rafNext <= MaxEffectRafId
       /\ effects.frameIndex < MaxEffectFrames
       /\ effects' = effectDetectPoseResume(effects, i, result)
       /\ EffectRest

EffectNext ==
    \/ EffectMount
    \/ EffectDepsChange
    \/ EffectFullScreenChange
    \/ EffectUnmount
    \/ EffectVideoReady
    \/ EffectAnimationFrame
    \/ EffectEstimatorResolve

\* the single-stream PoseCanvas before its mount, where it is not under study
EffectIdle ==
    effects = [phase |-> "rendered",
               props |-> [poseLandmarker |-> FALSE,
                          videoDimensions |-> [width |-> 480, height |-> 360]],
               video |-> [present |-> TRUE, readyState |-> 0],
               runs |-> << >>, rafNext |-> 1, frameIndex |-> 0,
               landmarksData |-> << >>, isFullScreen |-> FALSE,
               canvas |-> [size |-> [width |-> 300, height |-> 150],
                           shows |-> "blank", by |-> 0]]

(***************************************************************************)
(* Specifications.                                                         *)
(***************************************************************************)
\* one dual-stream PoseCanvas: its loop, the estimator and the scoring calls
InitLoop == Init /\ OverlayIdle /\ AppIdle /\ CalcIdle /\ EffectIdle /\ ScoringIdle

Spec == InitLoop /\ [][Next]_vars

\* the Overlay of the single-stream PoseCanvas
InitOverlay == LoopIdle /\ OverlayInit /\ AppIdle /\ CalcIdle /\ EffectIdle /\ ScoringIdle

SpecOverlay == InitOverlay /\ [][OverlayNext]_vars

\* the dual-stream page
InitApp == LoopIdle /\ OverlayIdle /\ AppInit /\ CalcIdle /\ EffectIdle /\ ScoringIdle

SpecApp == InitApp /\ [][AppNext]_vars

InitCompare ==
    /\ LoopIdle /\ OverlayIdle /\ AppIdle /\ InitComparison /\ ScalingIdle
    /\ EffectIdle /\ ScoringIdle

\* the comparison and the draw colour of one iteration
SpecCompare == InitCompare /\ [][CompareNext]_vars

InitScale ==
    /\ LoopIdle /\ OverlayIdle /\ AppIdle /\ ComparisonIdle /\ InitScaling
    /\ EffectIdle /\ ScoringIdle

\* the scaling of the dimensions of a loaded video
SpecScale == InitScale /\ [][ScaleNext]_vars

\* a stream that has its estimator, valid dimensions and no counterpart yet
InitScoring ==
    /\ InitLoop
    /\ poseLandmarker
    /\ canvasCtx
    /\ ~invalidDimensions(Loop)
    /\ otherLandmarks = << >>

\* one dual-stream PoseCanvas, with the scoring calls observed
SpecScoring == InitScoring /\ [][ScoringNext]_vars

InitEffect == LoopIdle /\ OverlayIdle /\ AppIdle /\ CalcIdle /\ EffectInit /\ ScoringIdle

\* the effect-driven loop of the single-stream PoseCanvas
SpecEffect == InitEffect /\ [][EffectNext]_vars

(***************************************************************************)
(* Properties of the detection loop.                                       *)
(***************************************************************************)
\* iterations of detectPose that are suspended or requested
Chains == awaiting + Cardinality(rafPending)

\* the frame source is not ready or there is no estimator, stated on the inputs
NotReady == ~video.present \/ video.readyState < 2 \/ ~poseLandmarker

\* a step in which a scoring call settles
ScoringSettles == inflight' # inflight /\ inflight' \subseteq inflight

\* C1: for one stream at most one detection loop is active at any time;
\* starting while a loop runs never adds a second chain of iterations.
C1_AtMostOneLoop == Chains <= 1

\* C2: after stopPoseDetection, and until the next startPoseDetection, no
\* iteration draws, stores landmarks, calls the scoring service, advances the
\* frame counter or requests a frame, also when the stop came while an
\* iteration awaited the estimator.
C2_StoppedLoopIsQuiet ==
    [][(lastCommand = "stop" /\ lastCommand' = "stop")
         => /\ rafPending' \subseteq rafPending
            /\ landmarks' = landmarks
            /\ inflight' \subseteq inflight
            /\ frameIndex' = frameIndex
            /\ canvas' = canvas]_vars

\* C3: stopPoseDetection is idempotent: a second call right after the first
\* makes no further cancelAnimationFrame call and changes nothing; the stored
\* animation id is null after the first call.
C3_StopIdempotent ==
    LET first == stopPoseDetection(Loop)
        second == stopPoseDetection(first)
    IN /\ first.animationIdRef = 0
       /\ second = first

\* C3 witness: stop has cancelled the pending request of a running loop.
C3_Witness ==
    /\ lastCommand = "stop"
    /\ phase = "mounted"
    /\ animationIdRef = 0
    /\ rafNext > 1
    /\ Chains = 0

\* C4: every iteration that was suspended at the estimator ends by requesting
\* the next iteration, whether the estimator failed or a later step threw.
C4_IterationEndRequestsNext ==
    [][awaiting' < awaiting => rafNext' > rafNext]_vars

\* C5: with zero or invalid video dimensions the loop, once started and not
\* stopped, keeps an iteration requested.
C5_InvalidDimensionsKeepLoop ==
    (phase = "mounted" /\ lastCommand = "start" /\ (videoDimensions.width = 0 \/ videoDimensions.height = 0))
        => Chains >= 1

\* C6: an estimator result with zero detected subjects stores no landmarks,
\* runs no comparison, sends no scoring call, leaves the frame counter, and
\* requests the next iteration.
C6_NoSubjectOnlyReschedules ==
    awaiting > 0 =>
        \A result \in EstimatorResults :
            (~result.hasLandmarks \/ Len(result.landmarks) = 0) =>
                LET n == detectPoseResume(Loop, result)
                IN /\ n.landmarks = landmarks
                   /\ n.poseMatchPercentage = poseMatchPercentage
                   /\ n.inflight = inflight
                   /\ n.frameIndex = frameIndex
                   /\ n.unhandled = unhandled
                   /\ n.awaiting = awaiting - 1
                   /\ n.rafPending = rafPending \cup { rafNext }
                   /\ n.animationIdRef = rafNext

\* C6 witness: an iteration drew the frame, found no subject, and the next
\* iteration is requested with nothing stored, sent or counted.
C6_Witness ==
    /\ canvas = "frame"
    /\ awaiting = 0
    /\ ~unhandled
    /\ frameIndex = 0
    /\ landmarks = << >>
    /\ inflight = { }
    /\ animationIdRef \in rafPending

\* C7: an iteration that finds the frame source not ready, or no estimator,
\* changes nothing but requests the next iteration.
C7_NotReadyOnlyReschedules ==
    NotReady =>
        LET n == detectPoseBegin(Loop)
        IN /\ n.landmarks = landmarks
           /\ n.poseMatchPercentage = poseMatchPercentage
           /\ n.frameIndex = frameIndex
           /\ n.inflight = inflight
           /\ n.canvas = canvas
           /\ n.awaiting = awaiting
           /\ n.unhandled = unhandled
           /\ n.rafPending = rafPending \cup { rafNext }
           /\ n.animationIdRef = rafNext

\* C7 witness: two iterations have run on a source that is not ready; each only
\* requested the next one.
C7_Witness ==
    /\ NotReady
    /\ rafNext >= 3
    /\ animationIdRef \in rafPending
    /\ canvas = "blank"
    /\ awaiting = 0
    /\ frameIndex = 0
    /\ landmarks = << >>
    /\ lastCommand = "start"

\* C8: the iteration of a successful detection (the estimator has found a
\* subject) requests the next iteration before it ends, whatever scoring calls
\* are outstanding.
C8_LoopDoesNotWaitForScoring ==
    awaiting > 0 =>
        \A result \in EstimatorResults :
            (result.hasLandmarks /\ Len(result.landmarks) > 0) =>
                LET n == detectPoseResume(Loop, result)
                IN /\ n.rafPending = rafPending \cup { rafNext }
                   /\ n.animationIdRef = rafNext

\* C9: a scoring call that fails leaves the feedback state unchanged, raises
\* no error and leaves the loop's requests and iterations as they are.
C9_ScoringFailureIsContained ==
    [][(ScoringSettles /\ lastSettled' = "failed")
         => /\ feedback' = feedback
            /\ unhandled' = unhandled
            /\ rafPending' = rafPending
            /\ animationIdRef' = animationIdRef
            /\ awaiting' = awaiting]_vars

\* C9 witness: a scoring call failed after a feedback text was set, and the
\* loop still has its next iteration requested.
C9_Witness ==
    /\ lastSettled = "failed"
    /\ feedback # ""
    /\ ~unhandled
    /\ animationIdRef \in rafPending

\* C10: a scoring response whose feedback is "No feedback yet", empty or
\* absent changes neither the feedback state nor what the overlay is given.
C10_SilentResponseChangesNothing ==
    [][(ScoringSettles /\ lastSettled' = "silent")
         => /\ feedback' = feedback
            /\ statistics' = statistics
            /\ overlayHasItem' = overlayHasItem]_vars

\* C10 witness: a silent response settled while no feedback was ever set, and
\* the overlay has no item.
C10_Witness ==
    /\ lastSettled = "silent"
    /\ feedback = ""
    /\ ~overlayHasItem
    /\ inflight # { }

\* C11: every scoring response with a non-empty text other than the sentinel
\* becomes a visible feedback item of the stream that received it: once such a
\* response has settled, the stream's rendered output holds the feedback text.
C11_TextBecomesVisible ==
    (lastSettled = "text" /\ phase = "mounted")
        => renderedFeedbackItems = << feedback >>

\* C17: pausing and resuming a stream does not reset its frame counter, and the
\* first index sent after the resume is the counter's value at the pause: from
\* the stop until the next start the counter keeps its value.
C17_CounterKeptAcrossPause ==
    [][lastCommand = "stop" => frameIndex' = frameIndex]_vars

\* C20: within one mounted stream the frame indices sent are 0, 1, 2, .. with
\* no duplicate and no gap: a step sends a scoring call exactly when it
\* advances the counter, the index sent is the counter's value before the
\* advance, the counter advances by one, the next iteration is requested in
\* that step, and every index sent so far is below the counter.
C20_FrameIndicesAreConsecutive ==
    [][ /\ (frameIndex' # frameIndex) <=> ~(inflight' \subseteq inflight)
        /\ (frameIndex' # frameIndex) =>
              /\ frameIndex' = frameIndex + 1
              /\ inflight' = inflight \cup { frameIndex }
              /\ frameIndex \notin inflight
              /\ \A i \in inflight' : i < frameIndex'
              /\ rafPending' = rafPending \cup { rafNext }
              /\ animationIdRef' = rafNext ]_vars

\* C20 witness: two detections have sent the indices 0 and 1 in this order;
\* the call of frame 0 has settled and the call of frame 1 is outstanding.
C20_Witness ==
    /\ phase = "mounted"
    /\ frameIndex = 2
    /\ inflight = { 1 }
    /\ animationIdRef \in rafPending

\* C34: with an empty counterpart landmark set a detection reports the match
\* percentage 100 and makes no comparison, whatever the current landmarks are.
C34_NoCounterpartGivesFullMatch ==
    (comparison.done /\ comparison.others = << >>)
        => /\ ~comparison.result.threw
           /\ comparison.result.percentage = Num(100)

\* landmarks without z, which no comparison could score, against no counterpart
C34_Witness ==
    /\ comparison.done
    /\ comparison.others = << >>
    /\ comparison.current = PoseNoZ
    /\ comparison.result.percentage = Num(100)

(***************************************************************************)
(* Properties of the Overlay.                                              *)
(***************************************************************************)
\* C12: a visible feedback item hides its configured duration (10 s with
\* narration, 5 s without) after it became visible when no new text arrives;
\* renders of the parent with the same text do not postpone the hide: an item
\* is never on display for longer than its duration.
C12_HidesAfterDuration == show => shownFor <= hideAfter

(***************************************************************************)
(* Properties of the dual-stream page.                                     *)
(***************************************************************************)
\* C13: the comparison of a stream uses the landmark set the other stream
\* stored most recently, never an older value: an iteration that is about to
\* compare reads the counterpart's latest stored set.
C13_ComparesWithLatestCounterpart ==
    \A src \in Sources :
        (isMounted(World, src) /\ streams[src].awaiting > 0)
            => streams[src].otherLandmarks = streams[counterpart(src)].landmarks

\* C14: after an explicit stop, the end of the media or a new upload, the
\* stored landmark set of each stream is empty.
C14_StopDiscardsLandmarks ==
    lastEvent \in { "stop", "ended", "upload", "rejected upload" }
        => \A src \in Sources : streams[src].landmarks = << >>

\* C15: after an explicit stop the frame counter of each mounted stream is 0.
C15_StopResetsFrameCounter ==
    lastEvent = "stop"
        => \A src \in Sources : isMounted(World, src) => streams[src].frameIndex = 0

\* C16: moving the slider of the reference stream to the start leaves the
\* page as an explicit stop does (not playing, loop cancelled): right after
\* such a seek a call of toggleStop would change nothing.
C16_SeekToStartStops ==
    (lastEvent = "seek to start" /\ controller.currentTime = 0)
        => LET w == commit(toggleStop(World))
           IN /\ w.c = controller
              /\ \A src \in Sources :
                    [w.s[src] EXCEPT !.cancelCalls = 0] = streams[src]

\* C18: on pause the detection loop of each mounted stream is cancelled: no
\* request of a mounted stream is pending and none is stored.
C18_PauseCancelsEveryLoop ==
    lastEvent = "pause"
        => \A src \in Sources :
              isMounted(World, src)
                  => streams[src].animationIdRef = 0 /\ streams[src].rafPending = { }

\* C19: at the end of the media both streams are stopped: neither has a
\* request pending.
C19_EndOfMediaStopsBoth ==
    lastEvent = "ended" => \A src \in Sources : streams[src].rafPending = { }

\* C25: with a reference video loaded, every activation of the play/pause
\* control flips the controller between paused and playing: from paused it
\* becomes playing (the pause control is shown), from playing it becomes
\* paused (the play control is shown), however many activations came before.
C25_PlayPauseAlternates ==
    [][(lastEvent' \in { "play", "pause" } /\ lastEvent' # lastEvent)
         => /\ controller'.isPlaying = ~controller.isPlaying
            /\ (lastEvent' = "play") <=> controller'.isPlaying
            /\ controller'.uploadedVideo]_vars

\* C25 witness: the control was activated to play and then to pause: the
\* controller is paused again with the webcam stream still mounted by the play.
C25_Witness ==
    /\ lastEvent = "pause"
    /\ ~controller.isPlaying
    /\ controller.isWebcamStreaming
    /\ isMounted(World, "webcam")

\* C33: whenever the reference is playing, the live stream is switched on and
\* its PoseCanvas is mounted.
C33_PlayingImpliesWebcamStreaming ==
    controller.isPlaying
        => controller.isWebcamStreaming /\ isMounted(World, "webcam")

\* play has been pressed with the reference video loaded: the live stream is
\* on and its PoseCanvas has started its loop
C33_Witness ==
    /\ lastEvent = "play"
    /\ controller.isPlaying
    /\ controller.isWebcamStreaming
    /\ streams["uploaded"].video.readyState = 2
    /\ streams["webcam"].phase = "mounted"
    /\ streams["webcam"].rafPending # { }

\* C35: toggleStop, called in whatever state the page is in (playing, paused
\* or idle), leaves the controller not playing, the live stream off and the
\* current time 0, and a second toggleStop right after leaves the controller's
\* state as it is; and that is the state of the controller after each handler
\* that calls it (the stop button, the end of the media, an upload of either
\* kind).
C35_StopResetsControllerOnce ==
    /\ LET stopped == commit(toggleStop(World))
       IN /\ ~stopped.c.isPlaying
          /\ ~stopped.c.isWebcamStreaming
          /\ stopped.c.currentTime = 0
          /\ stopped.c.videoTime = 0
          /\ commit(toggleStop(stopped)).c = stopped.c
    /\ lastEvent \in { "stop", "ended", "upload", "rejected upload" }
        => /\ ~controller.isPlaying
           /\ ~controller.isWebcamStreaming
           /\ controller.currentTime = 0
           /\ controller.videoTime = 0
           /\ commit(toggleStop(World)).c = controller

\* the stop button was pressed while playing: the live stream's PoseCanvas is
\* unmounted and the reference video is kept
C35_Witness ==
    /\ lastEvent = "stop"
    /\ ~controller.isPlaying
    /\ controller.uploadedVideo
    /\ streams["uploaded"].video.readyState = 2
    /\ streams["webcam"].phase = "unmounted"

\* C36: handleVideoUpload stops the session before it looks at the file: after
\* an upload of a file that is missing or not a video the controller is not
\* playing, the live stream is off and the current time is 0, as toggleStop
\* leaves them, and the reference video is the one there was.
C36_RejectedUploadStillStops ==
    [][lastEvent' = "rejected upload"
         => /\ ~controller'.isPlaying
            /\ ~controller'.isWebcamStreaming
            /\ controller'.currentTime = 0
            /\ controller'.videoTime = 0
            /\ controller' = toggleStop(World).c
            /\ controller'.uploadedVideo = controller.uploadedVideo
            /\ streams'["uploaded"].video = streams["uploaded"].video]_vars

\* a file that is not a video was picked in a session whose live stream had
\* run: the live stream's PoseCanvas is unmounted, the reference video is
\* still loaded
C36_Witness ==
    /\ lastEvent = "rejected upload"
    /\ ~controller.isPlaying
    /\ controller.uploadedVideo
    /\ streams["uploaded"].video.readyState = 2
    /\ streams["webcam"].phase = "unmounted"
    /\ streams["webcam"].rafNext > 1

(***************************************************************************)
(* Properties of the comparison and of the draw colour.                    *)
(***************************************************************************)
\* the comparison of the pair at hand has produced a number
ComparedToNumber ==
    /\ comparison.done
    /\ Len(comparison.others) > 0
    /\ ~comparison.result.threw
    /\ ~comparison.result.percentage.nan

\* joints whose deviation from the reference exceeds the threshold 0.1
\* (distances are in quarters: 0.1 is 4 tenths of a quarter)
anomalousJoints(currentLandmarks, others) ==
    { i \in 1..Len(currentLandmarks) :
        euclideanDistance(currentLandmarks[i], others[i]).val * 10 > 4 }

\* max(0, 100 - (anomalous joints / total joints) * 200)
anomalyPercentage(currentLandmarks, others) ==
    LET raw == 100 - (200 * Cardinality(anomalousJoints(currentLandmarks, others)))
                       \div Len(currentLandmarks)
    IN IF raw > 0 THEN raw ELSE 0

\* red to yellow on 0..50, yellow to green on 50..100, each channel linear
scaleColor(percentage) ==
    IF percentage <= 50
    THEN [r |-> Num(255), g |-> Num((255 * percentage + 25) \div 50), b |-> Num(0)]
    ELSE [r |-> Num((255 * (100 - percentage) + 25) \div 50), g |-> Num(255), b |-> Num(0)]

\* C21: for any two identical landmark sets the comparison yields the match
\* percentage 100 exactly.
C21_IdenticalSetsMatchFully ==
    (comparison.done /\ comparison.others = comparison.current)
        => /\ ~comparison.result.threw
           /\ comparison.result.percentage = Num(100)

\* C22: the match percentage an iteration produces is a number in 0..100 for
\* every pair of landmark sets, also for landmarks without z and for a
\* counterpart of another length.
C22_PercentageInRange ==
    (comparison.done /\ Len(comparison.others) > 0)
        => /\ ~comparison.result.threw
           /\ ~comparison.result.percentage.nan
           /\ comparison.result.percentage.val \in 0..100

\* C23: the match percentage equals max(0, 100 - (anomalous joints / total
\* joints) * 200), a joint being anomalous when its deviation exceeds the
\* threshold.
C23_PercentageCountsAnomalousJoints ==
    ComparedToNumber
        => comparison.result.percentage.val
             = anomalyPercentage(comparison.current, comparison.others)

\* C24: the draw colour interpolates red to yellow on 0-50% and yellow to
\* green on 50-100%: green at 100, red at 0.
C24_ColorRedYellowGreen ==
    ComparedToNumber
        => comparison.result.color = scaleColor(comparison.result.percentage.val)


\* C27: a feedback item arriving while another is visible replaces it at once:
\* the one item shown is the new one, the hide timeout pending for the replaced
\* item is gone and a timeout of the full duration is set; and no item is
\* hidden before it has been visible for its duration.
C27_NewItemReplacesVisibleOne ==
    [][/\ (feedback' # feedback /\ show)
            => /\ show'
               /\ statistics' = << feedback' >>
               /\ timer' = hideAfter
               /\ shownFor' = 0
       /\ (show /\ ~show') => shownFor >= hideAfter]_vars

\* the new item is still visible after the moment the replaced item's timeout
\* would have fired
C27_Witness ==
    /\ show
    /\ replacedTimer > 0
    /\ shownFor > replacedTimer
    /\ shownFor < hideAfter

\* C28: the narration speaks each feedback item once: while no new feedback
\* text arrives, the only change of the utterances spoken or waiting is that
\* the one being spoken ends.
C28_EachItemSpokenOnce ==
    [][(feedback' = feedback /\ speechQueue' # speechQueue)
          => (speechQueue # << >> /\ speechQueue' = Tail(speechQueue))]_vars

\* C29: a feedback item hidden by its timeout stays hidden until new feedback
\* text arrives.
C29_ExpiredItemStaysHidden == expired => ~show

\* C31: the loop is restartable: whenever the mounted stream has no iteration
\* suspended and no frame requested, a call of startPoseDetection leaves an
\* iteration suspended or a frame requested.
C31_IdleLoopRestarts ==
    (phase = "mounted" /\ Chains = 0)
        => LET started == startPoseDetection(Loop)
           IN started.awaiting + Cardinality(started.rafPending) >= 1

\* C32: whatever the order in which the outstanding scoring calls of a stream
\* resolve, the feedback state after a resolution is the text of the response
\* just resolved when it carries one, whatever frame it was sent for, and the
\* feedback state found otherwise.
C32_LastResolvedTextWins ==
    settled.idx >= 0
        => /\ feedback = IF settled.text # "" THEN settled.text ELSE settled.before
           /\ settled.idx \notin inflight
           /\ settled.idx < frameIndex

\* the call of frame 0 resolved after the call of frame 1 and replaced the
\* text that was set with its own
C32_Witness ==
    /\ frameIndex = 2
    /\ inflight = { }
    /\ settled.idx = 0
    /\ settled.text # ""
    /\ settled.before \notin { "", settled.text }
    /\ feedback = settled.text

(***************************************************************************)
(* Properties of the scaling.                                              *)
(***************************************************************************)
FracLeqInt(x, n) == x.num <= n * x.den

\* C26: for all positive inputs getScaledDimensions returns a width of at
\* most maxWidth and a height of at most maxHeight in the aspect ratio of the
\* input, and returns dimensions already inside the box unchanged.
C26_ScaledIntoBoxKeepingRatio ==
    scaling.done =>
        LET d == scaling.scaledDimensions
        IN /\ FracLeqInt(d.width, scaling.maxWidth)
           /\ FracLeqInt(d.height, scaling.maxHeight)
           /\ d.width.num > 0 /\ d.height.num > 0
           /\ FracMul(d.width, Frac(scaling.height, 1))
                = FracMul(d.height, Frac(scaling.width, 1))
           /\ (scaling.width <= scaling.maxWidth /\ scaling.height <= scaling.maxHeight)
                => d = [width |-> Frac(scaling.width, 1),
                        height |-> Frac(scaling.height, 1)]

\* a video too wide whose height, once the width is clamped, is still too high
C26_Witness ==
    /\ scaling.done
    /\ scaling.width > scaling.maxWidth
    /\ scaling.maxWidth * scaling.height > scaling.maxHeight * scaling.width
    /\ scaling.scaledDimensions.height = Frac(scaling.maxHeight, 1)
    /\ scaling.scaledDimensions.width.den > 1


(***************************************************************************)
(* Properties of the effect-driven loop.                                   *)
(***************************************************************************)
\* C30: a run of the detection effect that has been cleaned up begins no
\* iteration of detectPose afterwards.
C30_CleanedUpLoopStops ==
    \A i \in DOMAIN effects.runs : ~effects.runs[i].iteratedAfterCleanup

=============================================================================
